---- MODULE Spec2Model ----
(***************************************************************************)
(* A model of scripts/hash_calc.cpp: hash_file(), which streams a file     *)
(* through a named digest algorithm and hex-encodes the result into a      *)
(* caller-supplied buffer, and the optional command-line main().           *)
(*                                                                         *)
(* The digest library is an external collaborator.  What the code relies   *)
(* on is modelled: the registry lookup may miss, the context allocation    *)
(* may fail, and the digest operations on a resolved algorithm with an     *)
(* allocated context succeed (the code ignores their return values).       *)
(* File bytes are kept symbolically: a segment [cid, off, cnt] stands for  *)
(* the cnt bytes at offset off of the byte stream numbered cid, so the     *)
(* 4096-byte chunking is modelled at its real size.                        *)
(***************************************************************************)
EXTENDS Integers, Sequences, FiniteSets, TLC

\* ------------------------------------------------------------ constants

\* sizeof(buf): the chunk size of the read loop.
BufSize == 4096

\* The largest digest size of the library (bytes).
EVP_MAX_MD_SIZE == 64

\* The string terminator and the characters of "%02x".
NUL == "NUL"
HexChars == <<"0","1","2","3","4","5","6","7","8","9","a","b","c","d","e","f">>

\* ------------------------------------------------------------ bounds

\* How many times an embedding host calls hash_file in one process.
MaxCalls == 2
\* The largest argc the command line is started with.
MaxArgc == 4
\* A cap on the read attempts of one call (the code makes at most 3 here).
MaxReads == 6
\* The length of the file that is shorter than one chunk.
SmallLen == 100
\* Memory modelled behind the largest buffer, to observe stray writes.
Slack == 4

MemSize == 2 * EVP_MAX_MD_SIZE + 1 + Slack

\* ------------------------------------------------------------ environment

\* The digest registry: algorithm name -> digest size in bytes.
Registry == [md5 |-> 16, sha512 |-> 64]
AlgoNames == {"md5", "sha512", "notarealalgo"}

\* The file system: path -> file.  "copy" has the contents of "small".
Files == [missing |-> [exists |-> FALSE, len |-> 0, cid |-> 0],
          empty   |-> [exists |-> TRUE,  len |-> 0, cid |-> 1],
          small   |-> [exists |-> TRUE,  len |-> SmallLen, cid |-> 2],
          copy    |-> [exists |-> TRUE,  len |-> SmallLen, cid |-> 2],
          exact   |-> [exists |-> TRUE,  len |-> 2 * BufSize, cid |-> 3],
          plus    |-> [exists |-> TRUE,  len |-> BufSize + 1, cid |-> 4]]
Paths == DOMAIN Files

\* The capacities a host passes: 0 and both sides of each algorithm's need.
OutLens == {0} \cup UNION {{2 * Registry[a], 2 * Registry[a] + 1} : a \in DOMAIN Registry}

\* What a buffer may hold before a call.
Fills == {"?", NUL}

\* ------------------------------------------------------------ library

\* EVP_get_digestbyname: the descriptor (here the name), or "NULL".
EVP_get_digestbyname(name) == IF name \in DOMAIN Registry THEN name ELSE "NULL"

\* EVP_DigestUpdate(ctx, buf, n): the context has consumed n more bytes.
\* The bytes consumed are kept in normal form: a chunk that continues the
\* previous one extends it, so the digest does not depend on the chunking.
EVP_DigestUpdate(data, seg) ==
  IF seg.cnt = 0 THEN data
  ELSE IF data # << >>
          /\ data[Len(data)].cid = seg.cid
          /\ data[Len(data)].off + data[Len(data)].cnt = seg.off
       THEN [data EXCEPT ![Len(data)].cnt = @ + seg.cnt]
       ELSE Append(data, seg)

RECURSIVE Mix(_)
Mix(data) ==
  IF data = << >> THEN 0
  ELSE (31 * Mix(SubSeq(data, 1, Len(data) - 1))
        + 17 * data[Len(data)].cid + 3 * data[Len(data)].off
        + 7 * data[Len(data)].cnt + 1) % 256

\* EVP_DigestFinal_ex: the digest, a function of the algorithm and of the
\* bytes consumed, of the algorithm's size.  (A stand-in for the real hash.)
EVP_DigestFinal_ex(md, data) ==
  [i \in 1..Registry[md] |-> (7 * Mix(data) + 13 * i + Registry[md]) % 256]

\* ------------------------------------------------------------ hex encoding

\* A store is <<position, character>>; a sequence of stores is made in order.
\* The positions a sequence of stores writes.
WritePositions(W) == {W[k][1] : k \in DOMAIN W}

\* Memory after one store.  (A store outside the modelled memory is not
\* kept; it still counts among the positions written.)
Store(mem, w) == IF w[1] \in DOMAIN mem THEN [mem EXCEPT ![w[1]] = w[2]] ELSE mem

\* Memory after a sequence of stores, the first store made first.
RECURSIVE ApplyWrites(_, _)
ApplyWrites(mem, W) ==
  IF W = << >> THEN mem ELSE ApplyWrites(Store(mem, Head(W)), Tail(W))

\* The length of the C string at the start of mem: the position of its
\* first NUL (the size of the modelled memory when it holds none).
StrLen(mem) ==
  IF \A p \in DOMAIN mem : mem[p] # NUL THEN MemSize
  ELSE CHOOSE p \in DOMAIN mem : mem[p] = NUL /\ \A q \in 0..(p - 1) : mem[q] # NUL

\* The C string at the start of mem: the characters before the first NUL.
CStr(mem) == [k \in 1..StrLen(mem) |-> mem[k - 1]]

\* The stores of std::sprintf(mem + at, "%02x", byte) for an unsigned char:
\* two lowercase hex characters, high nibble first, and the terminator
\* sprintf appends.
Sprintf02x_upper(mem, at, byte) ==
  LET U == <<"0","1","2","3","4","5","6","7","8","9","A","B","C","D","E","F">>
  IN << <<at, U[(byte \div 16) + 1]>>, <<at + 1, U[(byte % 16) + 1]>>, <<at + 2, NUL>> >>

Sprintf02x_append(mem, at, byte) ==
  << <<StrLen(mem), HexChars[(byte \div 16) + 1]>>,
     <<StrLen(mem) + 1, HexChars[(byte % 16) + 1]>>,
     <<StrLen(mem) + 2, NUL>> >>

Sprintf02x(mem, at, byte) ==
  << <<at, HexChars[(byte \div 16) + 1]>>,
     <<at + 1, HexChars[(byte % 16) + 1]>>,
     <<at + 2, NUL>> >>

\* ------------------------------------------------------------ file stream

Min(a, b) == IF a < b THEN a ELSE b

\* std::ifstream after a successful open.
OpenedStream == [pos |-> 0, eof |-> FALSE, fail |-> FALSE, bad |-> FALSE, gcount |-> 0]

\* good(): no state bit is set.
Good(st) == ~st.eof /\ ~st.fail /\ ~st.bad

\* operator bool of the stream read() returns: !fail(), and fail() is
\* failbit or badbit.
ReadOk(st) == ~st.fail /\ ~st.bad

\* read() on a stream that is not good: the sentry fails, so nothing is
\* extracted, gcount() is 0 and failbit is set.
ReadBlocked_keepCount(st) == [st EXCEPT !.fail = TRUE]

ReadBlocked(st) == [st EXCEPT !.gcount = 0, !.fail = TRUE]

\* read(buf, n) on a good stream of file f that meets no I/O error: the next
\* min(n, rest) bytes; fewer than n sets eofbit and failbit.
ReadData(st, f, n) ==
  LET k == Min(n, f.len - st.pos)
  IN [st EXCEPT !.pos = @ + k, !.gcount = k,
                !.eof = (k < n), !.fail = (k < n)]

\* read(buf, n) that meets an I/O error.  Either the stream buffer throws,
\* read() sets badbit and gcount() stays 0, or the error ends the transfer
\* early and shows as a short read of p bytes (eofbit and failbit).
ReadError(st, p) ==
  IF p = 0 THEN [st EXCEPT !.gcount = 0, !.bad = TRUE]
  ELSE [st EXCEPT !.pos = @ + p, !.gcount = p, !.eof = TRUE, !.fail = TRUE]

\* The byte counts an I/O error can leave when k bytes were due.
ErrCounts(k) == {0} \cup (IF k >= 2 THEN {k \div 2} ELSE {})

\* Every outcome of file.read(buf, sizeof(buf)).
ReadOutcomes(st, f) ==
  IF ~Good(st) THEN {[st |-> ReadBlocked(st), err |-> FALSE, n |-> 0]}
  ELSE {[st |-> ReadData(st, f, BufSize), err |-> FALSE, n |-> 0]}
       \cup {[st |-> ReadError(st, p), err |-> TRUE, n |-> p]
               : p \in ErrCounts(Min(BufSize, f.len - st.pos))}

\* The condition of the while loop of line 23.
LoopCond_noPartial(st) == ReadOk(st)

LoopCond(st) == ReadOk(st) \/ st.gcount # 0

\* ------------------------------------------------------------ hash_file: pure parts

\* EVP_DigestInit_ex: a context that has consumed nothing.
EVP_DigestInit_ex == << >>

\* The test of line 30.
TooSmall_offByOne(cap, n) == cap < n * 2

TooSmall(cap, n) == cap < n * 2 + 1

\* sizeof(out) in main.
MainOutSize_noTerminator == EVP_MAX_MD_SIZE * 2

MainOutSize == EVP_MAX_MD_SIZE * 2 + 1

\* The test of line 39: argc is right.
ArgcOk_atLeast(n) == n >= 3

ArgcOk(n) == n = 3

\* The text of line 40.
Usage(prog) == <<"usage: ", prog, " <algo> <file>\n">>

\* ------------------------------------------------------------ state

VARIABLES
  mode,       \* "host": hash_file called by an embedding host; "cli": main()
  pc,         \* where the program is
  argv,       \* main's arguments, argv[0] first (<< >> for a host)
  algo_name,  \* hash_file's parameters ...
  file_path,
  out_len,
  out,        \* the memory at the out pointer, position -> character
  out0,       \* that memory as it was when the call was entered
  written,    \* the positions of out written during the call
  md,         \* line 10
  ctxLive,    \* digest contexts allocated and not freed
  data,       \* the bytes the digest context has consumed
  file,       \* the std::ifstream of line 16
  fdOpen,     \* file handles open
  buf,        \* line 22: the segment of the file it holds
  fed,        \* the chunks passed to EVP_DigestUpdate during the call
  reads,      \* file.read attempts during the call
  hash, len,  \* lines 26-28
  i,          \* line 31: the loop variable
  status,     \* hash_file's return value (-1 while none)
  env,        \* what the environment did to the call
  ops,        \* library and file operations of the call
  calls,      \* invocations of hash_file in the process
  prev,       \* an earlier call of the process: its inputs and its result
  stdout, stderr, exitCode

vars == <<mode, pc, argv, algo_name, file_path, out_len, out, out0, written, md,
          ctxLive, data, file, fdOpen, buf, fed, reads, hash, len, i, status,
          env, ops, calls, prev, stdout, stderr, exitCode>>

\* A buffer no call has written yet.
FreshBuffers == {[j \in 0..(MemSize - 1) |-> c] : c \in Fills}

NoSeg == [cid |-> 0, off |-> 0, cnt |-> 0]
NoEnv == [alloc |-> "none", open |-> "none", errAt |-> 0, errN |-> 0]
None  == [status |-> -1]

\* The inputs and the result of the call that has returned.
Summary == [algo    |-> algo_name,
            content |-> Files[file_path],
            out_len |-> out_len,
            env     |-> env,
            status  |-> status,
            str     |-> IF status = 0 THEN CStr(out) ELSE << >>]

\* The argument vector of a command line of n words: the program, then an
\* algorithm name, a path, and words beyond them.
Argv(a, p, n) ==
  [j \in 1..n |-> IF j = 1 THEN "hash_calc" ELSE IF j = 2 THEN a
                  ELSE IF j = 3 THEN p ELSE "extra"]

TypeOK ==
  /\ mode \in {"host", "cli"}
  /\ pc \in {"idle", "main", "lookup", "ctxnew", "open", "init", "read",
             "final", "check", "encode", "ret", "exit"}
  /\ out_len \in 0..MemSize
  /\ DOMAIN out = 0..(MemSize - 1)
  /\ ctxLive \in 0..1 /\ fdOpen \in 0..1
  /\ reads \in 0..MaxReads
  /\ status \in {-1, 0, 1}
  /\ calls \in 0..MaxCalls
  /\ exitCode \in {-1, 0, 1}

Init ==
  /\ mode \in {"host", "cli"}
  /\ pc = IF mode = "host" THEN "idle" ELSE "main"
  /\ argv \in IF mode = "host" THEN {<< >>}
              ELSE {Argv(a, p, n) : a \in AlgoNames, p \in Paths, n \in 1..MaxArgc}
  /\ algo_name = "" /\ file_path = "missing" /\ out_len = 0
  /\ out \in FreshBuffers
  /\ out0 = out
  /\ written = {}
  /\ md = "NULL" /\ ctxLive = 0 /\ data = << >>
  /\ file = OpenedStream /\ fdOpen = 0 /\ buf = NoSeg
  /\ fed = << >> /\ reads = 0 /\ hash = << >> /\ len = 0 /\ i = 0
  /\ status = -1 /\ env = NoEnv /\ ops = {} /\ calls = 0 /\ prev = None
  /\ stdout = << >> /\ stderr = << >> /\ exitCode = -1

\* ------------------------------------------------------------ hash_file

\* Line 8: the call is entered with these arguments, b being the memory at
\* the out pointer; its locals are fresh.
Enter(a, p, n, b) ==
  /\ algo_name' = a /\ file_path' = p /\ out_len' = n
  /\ out' = b /\ out0' = b /\ written' = {}
  /\ md' = "NULL" /\ data' = << >> /\ file' = OpenedStream /\ buf' = NoSeg
  /\ fed' = << >> /\ reads' = 0 /\ hash' = << >> /\ len' = 0 /\ i' = 0
  /\ status' = -1 /\ env' = NoEnv /\ ops' = {}
  /\ calls' = calls + 1
  /\ pc' = "lookup"

\* A return statement: the status goes to the caller and the ifstream, if
\* it was constructed and is open, is closed by its destructor.
Return(s) ==
  /\ status' = s
  /\ fdOpen' = 0
  /\ pc' = "ret"

\* EVP_MD_CTX_free.
EVP_MD_CTX_free(n) == n - 1

\* The call the host is about to make repeats the inputs of the call that
\* just returned: same algorithm name, same file contents, same capacity.
Repeats(a, p, n) ==
  pc = "ret" /\ algo_name = a /\ Files[file_path] = Files[p] /\ out_len = n

\* A host calls hash_file: its first call, or another after one returned.
\* It passes a buffer of its own; a call that repeats the inputs of the call
\* before may also pass that call's buffer again, as that call left it, and
\* that call's result is then remembered in prev.
HostCall ==
  /\ mode = "host" /\ pc \in {"idle", "ret"} /\ calls < MaxCalls
  /\ \E a \in AlgoNames, p \in Paths, n \in OutLens :
     \E b \in IF Repeats(a, p, n) THEN {out} \cup FreshBuffers ELSE FreshBuffers :
       /\ Enter(a, p, n, b)
       /\ prev' = IF Repeats(a, p, n) THEN Summary ELSE None
  /\ UNCHANGED <<mode, argv, ctxLive, fdOpen, stdout, stderr, exitCode>>

\* Lines 9-13.
LookupStep ==
  /\ pc = "lookup"
  /\ ops' = ops \cup {"get_digestbyname"}
  /\ md' = EVP_get_digestbyname(algo_name)
  /\ IF md' = "NULL" THEN Return(1)
     ELSE pc' = "ctxnew" /\ UNCHANGED <<status, fdOpen>>
  /\ UNCHANGED <<mode, argv, algo_name, file_path, out_len, out, out0, written,
                 ctxLive, data, file, buf, fed, reads, hash, len, i, env, calls,
                 prev, stdout, stderr, exitCode>>

\* Lines 14-15: EVP_MD_CTX_new gives a context or a null pointer.
CtxNewStep ==
  /\ pc = "ctxnew"
  /\ ops' = ops \cup {"ctx_new"}
  /\ \E ok \in BOOLEAN :
       IF ok THEN /\ ctxLive' = ctxLive + 1
                  /\ env' = [env EXCEPT !.alloc = "ok"]
                  /\ pc' = "open"
                  /\ UNCHANGED <<status, fdOpen>>
             ELSE /\ env' = [env EXCEPT !.alloc = "fail"]
                  /\ Return(1)
                  /\ UNCHANGED ctxLive
  /\ UNCHANGED <<mode, argv, algo_name, file_path, out_len, out, out0, written,
                 md, data, file, buf, fed, reads, hash, len, i, calls, prev,
                 stdout, stderr, exitCode>>

\* Lines 16-20: the file is opened, or the context is freed and the call fails.
OpenStep_noFree ==
  /\ pc = "open"
  /\ ops' = ops \cup {"open"}
  /\ IF Files[file_path].exists
     THEN /\ fdOpen' = fdOpen + 1
          /\ file' = OpenedStream
          /\ env' = [env EXCEPT !.open = "ok"]
          /\ pc' = "init"
          /\ UNCHANGED <<status, ctxLive>>
     ELSE /\ env' = [env EXCEPT !.open = "fail"]
          /\ UNCHANGED ctxLive
          /\ Return(1)
          /\ UNCHANGED file
  /\ UNCHANGED <<mode, argv, algo_name, file_path, out_len, out, out0, written,
                 md, data, buf, fed, reads, hash, len, i, calls, prev,
                 stdout, stderr, exitCode>>

OpenStep ==
  /\ pc = "open"
  /\ ops' = ops \cup {"open"}
  /\ IF Files[file_path].exists
     THEN /\ fdOpen' = fdOpen + 1
          /\ file' = OpenedStream
          /\ env' = [env EXCEPT !.open = "ok"]
          /\ pc' = "init"
          /\ UNCHANGED <<status, ctxLive>>
     ELSE /\ env' = [env EXCEPT !.open = "fail"]
          /\ ctxLive' = EVP_MD_CTX_free(ctxLive)
          /\ Return(1)
          /\ UNCHANGED file
  /\ UNCHANGED <<mode, argv, algo_name, file_path, out_len, out, out0, written,
                 md, data, buf, fed, reads, hash, len, i, calls, prev,
                 stdout, stderr, exitCode>>

\* Line 21.
InitStep ==
  /\ pc = "init"
  /\ ops' = ops \cup {"digest_init"}
  /\ data' = EVP_DigestInit_ex
  /\ pc' = "read"
  /\ UNCHANGED <<mode, argv, algo_name, file_path, out_len, out, out0, written,
                 md, ctxLive, file, fdOpen, buf, fed, reads, hash, len, i, status,
                 env, calls, prev, stdout, stderr, exitCode>>

\* Lines 23-25, one turn of the loop: a read attempt, the loop condition,
\* and the update when the condition holds.
ReadStep ==
  /\ pc = "read" /\ reads < MaxReads
  /\ \E o \in ReadOutcomes(file, Files[file_path]) :
       LET seg == [cid |-> Files[file_path].cid, off |-> file.pos, cnt |-> o.st.gcount]
           nbuf == IF o.st.pos > file.pos THEN seg ELSE buf
           chunk == [nbuf EXCEPT !.cnt = o.st.gcount]
       IN /\ file' = o.st
          /\ buf' = nbuf
          /\ env' = IF o.err THEN [env EXCEPT !.errAt = reads + 1, !.errN = o.n] ELSE env
          /\ IF LoopCond(o.st)
             THEN /\ data' = EVP_DigestUpdate(data, chunk)
                  /\ fed' = Append(fed, chunk)
                  /\ pc' = "read"
             ELSE /\ pc' = "final"
                  /\ UNCHANGED <<data, fed>>
  /\ reads' = reads + 1
  /\ ops' = ops \cup {"read"}
  /\ UNCHANGED <<mode, argv, algo_name, file_path, out_len, out, out0, written,
                 md, ctxLive, fdOpen, hash, len, i, status, calls, prev,
                 stdout, stderr, exitCode>>

\* Lines 26-29: the digest is finalized and the context freed.
FinalStep ==
  /\ pc = "final"
  /\ ops' = ops \cup {"digest_final"}
  /\ hash' = EVP_DigestFinal_ex(md, data)
  /\ len' = Len(hash')
  /\ ctxLive' = EVP_MD_CTX_free(ctxLive)
  /\ pc' = "check"
  /\ UNCHANGED <<mode, argv, algo_name, file_path, out_len, out, out0, written,
                 md, data, file, fdOpen, buf, fed, reads, i, status, env, calls,
                 prev, stdout, stderr, exitCode>>

\* Line 30: the capacity test.
CheckStep_clearOut ==
  /\ pc = "check"
  /\ IF TooSmall(out_len, len)
     THEN /\ out' = ApplyWrites(out, << <<0, NUL>> >>)
          /\ written' = written \cup {0}
          /\ Return(1)
          /\ UNCHANGED i
     ELSE /\ pc' = "encode"
          /\ i' = 0
          /\ UNCHANGED <<status, fdOpen, out, written>>
  /\ UNCHANGED <<mode, argv, algo_name, file_path, out_len, out0, md,
                 ctxLive, data, file, buf, fed, reads, hash, len, env, ops,
                 calls, prev, stdout, stderr, exitCode>>

CheckStep ==
  /\ pc = "check"
  /\ IF TooSmall(out_len, len)
     THEN /\ Return(1)
          /\ UNCHANGED i
     ELSE /\ pc' = "encode"
          /\ i' = 0
          /\ UNCHANGED <<status, fdOpen>>
  /\ UNCHANGED <<mode, argv, algo_name, file_path, out_len, out, out0, written, md,
                 ctxLive, data, file, buf, fed, reads, hash, len, env, ops,
                 calls, prev, stdout, stderr, exitCode>>

\* Lines 31-32, one turn of the loop: digest byte i goes to out + i * 2.
EncodeTurn ==
  /\ pc = "encode" /\ i < len
  /\ LET W == Sprintf02x(out, i * 2, hash[i + 1])
     IN /\ out' = ApplyWrites(out, W)
        /\ written' = written \cup WritePositions(W)
  /\ i' = i + 1
  /\ UNCHANGED <<mode, pc, argv, algo_name, file_path, out_len, out0, md, ctxLive,
                 data, file, fdOpen, buf, fed, reads, hash, len, status, env, ops,
                 calls, prev, stdout, stderr, exitCode>>

\* Lines 33-34: the loop is over; the terminator is stored and 0 returned.
TerminateStep ==
  /\ pc = "encode" /\ ~(i < len)
  /\ out' = ApplyWrites(out, << <<len * 2, NUL>> >>)
  /\ written' = written \cup {len * 2}
  /\ Return(0)
  /\ UNCHANGED <<mode, argv, algo_name, file_path, out_len, out0, md, ctxLive,
                 data, file, buf, fed, reads, hash, len, i, env, ops, calls, prev,
                 stdout, stderr, exitCode>>

HashFileStep ==
  \/ LookupStep \/ CtxNewStep \/ OpenStep \/ InitStep \/ ReadStep \/ FinalStep
  \/ CheckStep \/ EncodeTurn \/ TerminateStep

\* ------------------------------------------------------------ main

\* Lines 39-44: the usage error, or the call of hash_file on the local buffer.
MainStart ==
  /\ mode = "cli" /\ pc = "main"
  /\ IF ArgcOk(Len(argv))
     THEN /\ Enter(argv[2], argv[3], MainOutSize, out)
          /\ UNCHANGED <<stderr, exitCode>>
     ELSE /\ stderr' = stderr \o Usage(argv[1])
          /\ exitCode' = 1
          /\ pc' = "exit"
          /\ UNCHANGED <<algo_name, file_path, out_len, out, out0, written, md,
                         data, file, buf, fed, reads, hash, len, i, status, env,
                         ops, calls>>
  /\ UNCHANGED <<mode, argv, ctxLive, fdOpen, prev, stdout>>

\* Lines 44-48: hash_file has returned to main.
MainFinish ==
  /\ mode = "cli" /\ pc = "ret"
  /\ IF status # 0
     THEN exitCode' = 1 /\ UNCHANGED stdout
     ELSE exitCode' = 0 /\ stdout' = stdout \o CStr(out) \o <<"\n">>
  /\ pc' = "exit"
  /\ UNCHANGED <<mode, argv, algo_name, file_path, out_len, out, out0, written,
                 md, ctxLive, data, file, fdOpen, buf, fed, reads, hash, len, i,
                 status, env, ops, calls, prev, stderr>>

Next == HostCall \/ HashFileStep \/ MainStart \/ MainFinish

Spec == Init /\ [][Next]_vars

\* A call that has started runs on: the program is sequential and nothing
\* in it waits.
LiveSpec == Spec /\ WF_vars(HashFileStep)

\* ------------------------------------------------------------ properties

\* The file the call is about.
F == Files[file_path]

\* The whole contents of a file, as the bytes a digest context has consumed.
Contents(f) == IF f.len = 0 THEN << >> ELSE <<[cid |-> f.cid, off |-> 0, cnt |-> f.len]>>

\* The chunks are non-empty pieces of file f that follow one another from
\* its first byte to its last: every byte once, in file order.
Tiles(chunks, f) ==
  /\ \A j \in DOMAIN chunks :
       /\ chunks[j].cid = f.cid
       /\ chunks[j].cnt > 0
       /\ chunks[j].off = IF j = 1 THEN 0 ELSE chunks[j - 1].off + chunks[j - 1].cnt
  /\ f.len = IF chunks = << >> THEN 0
             ELSE chunks[Len(chunks)].off + chunks[Len(chunks)].cnt

CeilDiv(a, b) == (a + b - 1) \div b

IsLowerHex(c) == \E k \in DOMAIN HexChars : HexChars[k] = c
HexVal(c) == (CHOOSE k \in DOMAIN HexChars : HexChars[k] = c) - 1

\* The lowercase hex string of a byte sequence, high nibble first.
HexOf(h) ==
  [k \in 1..(2 * Len(h)) |->
     HexChars[(IF k % 2 = 1 THEN h[(k + 1) \div 2] \div 16 ELSE h[k \div 2] % 16) + 1]]

InCall == pc \in {"lookup", "ctxnew", "open", "init", "read", "final", "check", "encode"}

\* C1: when hash_file returns 0 with a digest of len bytes, out holds 2*len
\* lowercase hex characters, digest byte i at positions 2i and 2i+1 with its
\* high nibble first, then the terminator at 2*len; every position written
\* is below out_len.
C1_HexOnSuccess ==
  (pc = "ret" /\ status = 0) =>
    /\ len = Len(hash) /\ len > 0
    /\ \A j \in 0..(len - 1) :
         /\ IsLowerHex(out[2 * j]) /\ IsLowerHex(out[2 * j + 1])
         /\ 16 * HexVal(out[2 * j]) + HexVal(out[2 * j + 1]) = hash[j + 1]
    /\ out[2 * len] = NUL
    /\ Len(CStr(out)) = 2 * len
    /\ written # {}
    /\ \A p \in written : 0 <= p /\ p < out_len

\* A success into a buffer of exactly 2*len+1, of a digest with a byte below
\* 16 (a leading zero) and a byte with a letter digit.
C1_Witness ==
  /\ pc = "ret" /\ status = 0 /\ mode = "host"
  /\ out_len = 2 * len + 1
  /\ \E j \in DOMAIN hash : hash[j] < 16
  /\ \E j \in DOMAIN hash : hash[j] % 16 >= 10

\* C2: when hash_file returns non-zero, whatever the cause, no position of
\* the caller's buffer has been written: the buffer is as it was on entry.
C2_FailureLeavesBuffer ==
  (pc = "ret" /\ status # 0) => (written = {} /\ out = out0)

\* A failure after the digest was finalized, on a buffer that has room for
\* some of the hex string but not all of it.
C2_Witness ==
  /\ pc = "ret" /\ status # 0
  /\ hash # << >> /\ out_len > 0 /\ out_len < 2 * len + 1

\* C3: hash_file returns 0 exactly when the algorithm name resolves, the
\* context is allocated, the file opens and out_len >= 2*len+1 for the
\* resolved digest size; otherwise it returns non-zero, and a capacity of 0
\* always fails.
C3_StatusIff ==
  pc = "ret" =>
    /\ status \in {0, 1}
    /\ (status = 0) <=> /\ algo_name \in DOMAIN Registry
                        /\ env.alloc = "ok"
                        /\ F.exists /\ env.open = "ok"
                        /\ out_len >= 2 * Registry[algo_name] + 1
    /\ (out_len = 0 => status # 0)

\* A failure for one missing byte of capacity: everything else succeeded.
C3_Witness ==
  /\ pc = "ret" /\ status = 1
  /\ env.open = "ok" /\ out_len = 2 * len

\* C4: whenever hash_file has returned, on whichever path, no digest context
\* and no file handle of the call is live.
C4_NoLeak ==
  /\ (pc \in {"idle", "ret", "exit"} => (ctxLive = 0 /\ fdOpen = 0))
  /\ ctxLive \in {0, 1} /\ fdOpen \in {0, 1}

\* A return on the path where the context was allocated and the open failed.
C4_Witness ==
  /\ pc = "ret" /\ status = 1
  /\ env.alloc = "ok" /\ env.open = "fail"

\* C5: for a file read without error, the chunks fed to the digest context
\* before finalization are the file's contents, every byte once and in file
\* order, each chunk non-empty and at most 4096 bytes; nothing is fed for an
\* empty file.
C5_FedIsFile ==
  (hash # << >> /\ env.errAt = 0) =>
    /\ Tiles(fed, F)
    /\ data = Contents(F)
    /\ \A j \in DOMAIN fed : fed[j].cnt <= BufSize
    /\ Len(fed) = CeilDiv(F.len, BufSize)
    /\ (F.len = 0 => fed = << >>)

\* A finalized digest of the file of one chunk plus a remainder.
C5_Witness ==
  /\ pc = "check" /\ env.errAt = 0
  /\ F.len = BufSize + 1 /\ Len(fed) = 2 /\ fed[2].cnt = 1

\* C6: started with an argument count other than two, the command line
\* writes the usage message to the error stream, exits with status 1, writes
\* nothing to standard output and never invokes hash_file.
C6_UsageError ==
  (mode = "cli" /\ Len(argv) # 3) =>
    /\ pc \in {"main", "exit"}
    /\ calls = 0 /\ ops = {} /\ stdout = << >>
    /\ pc = "exit" => (exitCode = 1 /\ stderr = Usage(argv[1]))

\* The exit of a command line with three arguments.
C6_Witness ==
  /\ mode = "cli" /\ pc = "exit" /\ Len(argv) = 4
  /\ exitCode = 1 /\ stderr # << >>

\* C7: started with two arguments, the command line exits 0 with exactly the
\* hex digest and one newline on standard output when the algorithm resolves
\* and the file opens, and exits 1 with nothing on standard output when
\* hash_file fails.
C7_CliResult ==
  (mode = "cli" /\ pc = "exit" /\ Len(argv) = 3) =>
    /\ calls = 1
    /\ (argv[2] \in DOMAIN Registry /\ env.open = "ok") =>
          /\ exitCode = 0
          /\ Len(hash) = Registry[argv[2]]
          /\ stdout = HexOf(hash) \o <<"\n">>
    /\ status # 0 => (exitCode = 1 /\ stdout = << >>)
    /\ exitCode \in {0, 1}
    /\ stderr = << >>

\* The largest digest printed: 128 hex characters and the newline.
C7_Witness ==
  /\ mode = "cli" /\ pc = "exit" /\ exitCode = 0
  /\ argv[2] = "sha512" /\ Len(stdout) = 2 * EVP_MAX_MD_SIZE + 1

\* C8 as stated: a call that repeats the algorithm name, the file contents
\* and the capacity of an earlier call returns the same status and, on
\* success, leaves the same hex string.
C8_SameInputsSameResult ==
  (pc = "ret" /\ prev # None) =>
    /\ status = prev.status
    /\ status = 0 => CStr(out) = prev.str

\* C8 as amended: a call that repeats the algorithm name, the file contents
\* and the capacity of an earlier call, and in which the context allocation,
\* the open and every read have the same outcome as in that call, returns
\* the same status and, on success, leaves the same hex string, whatever the
\* buffer held before and whatever calls came before.
C8_SameInputsAndOutcomesSameResult ==
  (pc = "ret" /\ prev # None /\ prev.env = env) =>
    /\ status = prev.status
    /\ status = 0 => CStr(out) = prev.str

\* A success that repeats a success, into a buffer that is not the one the
\* earlier call left.
C8_Witness ==
  /\ pc = "ret" /\ prev # None /\ prev.env = env
  /\ status = 0 /\ prev.status = 0
  /\ out0 \in FreshBuffers

\* C9: every call of hash_file returns, and its loop makes at most
\* ceil(file length / 4096) + 1 read attempts.
C9_Terminates ==
  /\ [](reads <= CeilDiv(F.len, BufSize) + 1)
  /\ (InCall ~> (pc = "ret"))

\* A return after the most read attempts the file allows: a full chunk, the
\* remainder, and the attempt on the failed stream.
C9_Witness ==
  /\ pc = "ret" /\ F.len = BufSize + 1
  /\ reads = CeilDiv(F.len, BufSize) + 1 /\ env.errAt = 0

\* C10: whenever hash_file returns 0, the bytes fed to the digest context
\* are the whole file.
C10_SuccessMeansWholeFile ==
  (pc = "ret" /\ status = 0) => (Tiles(fed, F) /\ data = Contents(F))

====
